---------------------------- MODULE Spec2Model ----------------------------
(***************************************************************************)
(* A model of mfem::FindPointsGSLIB (fem/gslib.cpp): the object that owns  *)
(* the point cloud handed to the gslib findpts engine, the engine's        *)
(* opaque search structures, and the simplex integration-point table.      *)
(*                                                                         *)
(* The object's fields are the variables mesh, dim, gsl_mesh, ir_simplex,  *)
(* fdata2D, fdata3D and gsl_comm.  The gslib engine is the environment:    *)
(* `handles` is its heap of search structures and `calls` lists the engine *)
(* routines invoked by the last member function, with their arguments.     *)
(* Arrays are functions on 0..n-1, as in the C++ code.                     *)
(*                                                                         *)
(* MFEM_VERIFY / MFEM_ABORT end the member function where they stand; the  *)
(* object keeps the fields written before them.  With MFEM_USE_EXCEPTIONS  *)
(* the caller goes on with that object, without it the run ends there, so  *)
(* the states of the aborting build are states of this model too.          *)
(***************************************************************************)
EXTENDS Integers, Sequences, FiniteSets, TLC

VARIABLES
    mesh,        \* Mesh *mesh: NoMesh (NULL) or the mesh given to Setup
    dim,         \* int dim: -1 until Setup assigns mesh->Dimension()
    gsl_mesh,    \* Vector gsl_mesh: the point cloud
    ir_simplex,  \* IntegrationRule *ir_simplex: 0 (NULL) or a table id
    fdata2D,     \* findpts_data_2 *fdata2D: 0 (NULL) or an engine handle id
    fdata3D,     \* findpts_data_3 *fdata3D: 0 (NULL) or an engine handle id
    gsl_comm,    \* comm *gsl_comm: "allocated" or "deleted"
    handles,     \* engine heap: handle id -> "unused" | "live2" | "live3" | "released"
    tables,      \* heap of IntegrationRule objects: id -> "unused" | "live" | "deleted"
    results,     \* caller-owned codes/proc_ids/elem_ids/ref_pos/dist, one record per slot
    calls,       \* engine routines invoked by the last member function
    lastOp,      \* the last member function called, its input and how it ended
    proc         \* "running" | "crashed" (undefined behaviour ended the run) | "destroyed"

vars == <<mesh, dim, gsl_mesh, ir_simplex, fdata2D, fdata3D, gsl_comm,
          handles, tables, results, calls, lastOp, proc>>

(***************************************************************************)
(* Bounds of the model.                                                    *)
(***************************************************************************)
MaxHandles == 2     \* engine setups in one run
MaxNE      == 2     \* elements of a mesh
MaxOrder   == 2     \* polynomial order of the nodal space
MaxQuery   == 4     \* length of a query buffer point_pos
MaxVDim    == 2     \* components of an interpolated field
MaxFieldDofs == 2   \* scalar degrees of freedom of an interpolated field

(***************************************************************************)
(* Arrays.                                                                 *)
(***************************************************************************)
EmptyArray == [i \in {} |-> 0]

Size(a) == Cardinality(DOMAIN a)

RECURSIVE Pow(_, _)
Pow(b, e) == IF e <= 0 THEN 1 ELSE b * Pow(b, e - 1)

\* C++ integer division truncates toward zero.
CDiv(a, b) ==
    IF (a >= 0) = (b > 0) THEN (IF a >= 0 THEN a ELSE -a) \div (IF b > 0 THEN b ELSE -b)
    ELSE -((IF a >= 0 THEN a ELSE -a) \div (IF b > 0 THEN b ELSE -b))

(***************************************************************************)
(* The mesh collaborator.  A mesh is its dimension, whether it has a nodal *)
(* grid function, the geometry of each element, the order of the nodal     *)
(* finite element and whether that element is a TensorBasisElement.        *)
(***************************************************************************)
NoMesh == [id |-> "NULL"]

Simplices == {"TRIANGLE", "TETRAHEDRON", "PRISM"}
Tensors   == {"SQUARE", "CUBE"}

GeomDim(g) ==
    CASE g = "SEGMENT" -> 1
      [] g \in {"TRIANGLE", "SQUARE"} -> 2
      [] OTHER -> 3

MeshOf(d, nodes, geoms, p, tb) ==
    [id |-> "mesh", Dim |-> d, hasNodes |-> nodes, geom |-> geoms, order |-> p,
     tensor |-> tb]

Uniform(g, ne) == [i \in 0 .. ne - 1 |-> g]

\* Meshes a caller may hand to Setup: tensor meshes of every order up to
\* MaxOrder (0 included), a cube mesh, simplex meshes, a nodal space without
\* a tensor basis, a segment mesh, a mesh without nodes, a mixed mesh and a
\* mesh without elements.
Meshes ==
    {MeshOf(2, TRUE, Uniform("SQUARE", MaxNE), p, TRUE) : p \in 0 .. MaxOrder}
    \cup {MeshOf(2, TRUE, Uniform("TRIANGLE", MaxNE), p, FALSE) : p \in {0, MaxOrder}}
    \cup {MeshOf(3, TRUE, Uniform("CUBE", 1), 1, TRUE),
          MeshOf(2, TRUE, Uniform("SQUARE", 1), 1, FALSE),
          MeshOf(1, TRUE, Uniform("SEGMENT", 1), 1, TRUE),
          MeshOf(2, FALSE, Uniform("SQUARE", 1), 1, TRUE),
          MeshOf(2, TRUE, (0 :> "TRIANGLE") @@ (1 :> "SQUARE"), 1, FALSE),
          MeshOf(2, TRUE, EmptyArray, 1, TRUE)}

GetNE(m) == Size(m.geom)

\* Mesh::GetNumGeometries(dim): the geometry kinds of dimension d present.
GetNumGeometries(m, d) ==
    Cardinality({g \in {m.geom[i] : i \in DOMAIN m.geom} : GeomDim(g) = d})


(***************************************************************************)
(* The Dof-Map Adapter: TensorBasisElement::GetDofMap() of the H1 element  *)
(* on a square or a cube, entry i being the native dof of lexicographic    *)
(* slot i (vertices, then edges, then faces, then interior dofs).          *)
(***************************************************************************)
QuadDofMap(p) ==
    LET p1 == p + 1
        at(i, j) ==
            IF p = 0 THEN 0
            ELSE IF j = 0 /\ i = 0 THEN 0
            ELSE IF j = 0 /\ i = p THEN 1
            ELSE IF j = p /\ i = p THEN 2
            ELSE IF j = p /\ i = 0 THEN 3
            ELSE IF j = 0 THEN 4 + (i - 1)
            ELSE IF i = p THEN 4 + (p - 1) + (j - 1)
            ELSE IF j = p THEN 4 + 2 * (p - 1) + (p - i - 1)
            ELSE IF i = 0 THEN 4 + 3 * (p - 1) + (p - j - 1)
            ELSE 4 + 4 * (p - 1) + (j - 1) * (p - 1) + (i - 1)
    IN  [s \in 0 .. p1 * p1 - 1 |-> at(s % p1, s \div p1)]

HexDofMap(p) ==
    LET p1 == p + 1
        q  == p - 1
        e(n) == 8 + n * q            \* first dof of edge n
        f(n) == 8 + 12 * q + n * q * q  \* first dof of face n
        on(x) == x = 0 \/ x = p
        at(i, j, k) ==
            IF p = 0 THEN 0
            ELSE IF on(i) /\ on(j) /\ on(k) THEN
                (IF k = p THEN 4 ELSE 0) +
                (IF j = 0 THEN (IF i = 0 THEN 0 ELSE 1) ELSE (IF i = p THEN 2 ELSE 3))
            ELSE IF on(j) /\ on(k) THEN
                e((IF k = p THEN 4 ELSE 0) + (IF j = 0 THEN 0 ELSE 2)) + (i - 1)
            ELSE IF on(i) /\ on(k) THEN
                e((IF k = p THEN 4 ELSE 0) + (IF i = p THEN 1 ELSE 3)) + (j - 1)
            ELSE IF on(i) /\ on(j) THEN
                e(8 + (IF j = 0 THEN (IF i = 0 THEN 0 ELSE 1) ELSE (IF i = p THEN 2 ELSE 3)))
                + (k - 1)
            ELSE IF k = 0 THEN f(0) + (p - j - 1) * q + (i - 1)
            ELSE IF j = 0 THEN f(1) + (k - 1) * q + (i - 1)
            ELSE IF i = p THEN f(2) + (k - 1) * q + (j - 1)
            ELSE IF j = p THEN f(3) + (k - 1) * q + (p - i - 1)
            ELSE IF i = 0 THEN f(4) + (k - 1) * q + (p - j - 1)
            ELSE IF k = p THEN f(5) + (j - 1) * q + (i - 1)
            ELSE f(6) + ((k - 1) * q + (j - 1)) * q + (i - 1)
    IN  [s \in 0 .. p1 * p1 * p1 - 1 |-> at(s % p1, (s \div p1) % p1, s \div (p1 * p1))]

GetDofMap(d, p) == IF d = 2 THEN QuadDofMap(p) ELSE HexDofMap(p)

\* H1_FECollection(p, dim) exists for p >= 1 only.
H1_FECollection_ok(p) == p >= 1

(***************************************************************************)
(* GetQuadHexNodalCoordinates.  Entry <<"X", i, n, d>> is coordinate d of  *)
(* native node n of element i, read from the mesh's nodal grid function.   *)
(* The buffer is resized before the tensor-basis check; a resized buffer   *)
(* that was not filled holds "uninit".                                     *)
(***************************************************************************)
\* QuadHexCloud counting the dofs of one axis instead of those of the element.
QuadHexCloud_AxisDofs(m, d) ==
    LET NE      == GetNE(m)
        dof_cnt == m.order + 1
        pts_cnt == NE * dof_cnt
        dof_map == GetDofMap(d, m.order)
    IN  [x \in 0 .. d * pts_cnt - 1 |->
            LET c     == x \div pts_cnt
                pt_id == x % pts_cnt
            IN  <<"X", pt_id \div dof_cnt, dof_map[pt_id % dof_cnt], c>>]

\* QuadHexCloud indexing the dof map with the slot along the first axis.
QuadHexCloud_AxisSlot(m, d) ==
    LET NE      == GetNE(m)
        dof_cnt == Pow(m.order + 1, d)
        pts_cnt == NE * dof_cnt
        dof_map == GetDofMap(d, m.order)
    IN  [x \in 0 .. d * pts_cnt - 1 |->
            LET c     == x \div pts_cnt
                pt_id == x % pts_cnt
            IN  <<"X", pt_id \div dof_cnt, dof_map[pt_id % (m.order + 1)], c>>]

QuadHexCloud(m, d) ==
    LET NE      == GetNE(m)
        dof_cnt == Pow(m.order + 1, d)
        pts_cnt == NE * dof_cnt
        dof_map == GetDofMap(d, m.order)
    IN  [x \in 0 .. d * pts_cnt - 1 |->
            LET c     == x \div pts_cnt
                pt_id == x % pts_cnt
            IN  <<"X", pt_id \div dof_cnt, dof_map[pt_id % dof_cnt], c>>]

\* GetQuadHexNodalCoordinates without the tensor-basis check.
GetQuadHexNodalCoordinates_NoBasisCheck(m, d) ==
    [ok |-> TRUE, msg |-> "", gsl |-> QuadHexCloud(m, d)]

GetQuadHexNodalCoordinates(m, d) ==
    LET pts_cnt == GetNE(m) * Pow(m.order + 1, d)
    IN  IF ~m.tensor
        THEN [ok |-> FALSE, msg |-> "TensorBasis FiniteElement expected.",
              gsl |-> [x \in 0 .. d * pts_cnt - 1 |-> "uninit"]]
        ELSE [ok |-> TRUE, msg |-> "", gsl |-> QuadHexCloud(m, d)]

(***************************************************************************)
(* GetSimplexNodalCoordinates.  The reference simplex is split into        *)
(* NEsplit quadrilaterals or hexahedra; table point <<"S", i, n>> is the   *)
(* position of native node n of sub-element i of the curved sub-mesh, and  *)
(* cloud entry <<"F", j, ip, d>> is coordinate d of the nodal grid         *)
(* function of element j evaluated at table point ip.                      *)
(***************************************************************************)
NEsplitOf(gt) == IF gt = "TETRAHEDRON" THEN 4 ELSE 3

\* SubMesh whose second tetrahedron sub-element lists vertex 10 twice.
SubMesh_RepeatedVertex(gt) ==
    IF gt = "TRIANGLE"
    THEN [Nvert |-> 7, NEsplit |-> 3, scale |-> 6,
          v |-> << <<0, 0>>, <<3, 0>>, <<6, 0>>, <<0, 3>>,
                   <<2, 2>>, <<3, 3>>, <<0, 6>> >>,
          e |-> << <<3, 4, 1, 0>>, <<4, 5, 2, 1>>, <<6, 5, 4, 3>> >>]
    ELSE IF gt = "TETRAHEDRON"
    THEN [Nvert |-> 15, NEsplit |-> 4, scale |-> 12,
          v |-> << <<0, 0, 0>>, <<12, 0, 0>>, <<0, 12, 0>>, <<0, 0, 12>>,
                   <<6, 0, 0>>, <<6, 6, 0>>, <<0, 6, 0>>,
                   <<0, 0, 6>>, <<6, 0, 6>>, <<0, 6, 6>>,
                   <<4, 0, 4>>, <<4, 4, 4>>, <<0, 4, 4>>,
                   <<4, 4, 0>>, <<3, 3, 3>> >>,
          e |-> << <<0, 4, 10, 7, 6, 13, 14, 12>>,
                   <<4, 1, 10, 10, 13, 5, 11, 14>>,
                   <<13, 5, 11, 14, 6, 2, 9, 12>>,
                   <<10, 8, 3, 7, 14, 11, 9, 12>> >>]
    ELSE [Nvert |-> 14, NEsplit |-> 3, scale |-> 6,
          v |-> << <<0, 0, 0>>, <<3, 0, 0>>, <<6, 0, 0>>, <<0, 3, 0>>,
                   <<2, 2, 0>>, <<3, 3, 0>>, <<0, 6, 0>>,
                   <<0, 0, 6>>, <<3, 0, 6>>, <<6, 0, 6>>, <<0, 3, 6>>,
                   <<2, 2, 6>>, <<3, 3, 6>>, <<0, 6, 6>> >>,
          e |-> << <<3, 4, 1, 0, 10, 11, 8, 7>>,
                   <<4, 5, 2, 1, 11, 12, 9, 8>>,
                   <<6, 5, 4, 3, 13, 12, 11, 10>> >>]

\* SubMesh whose triangle table has the centroid at (1/2, 1/3).
SubMesh_ShiftedCentroid(gt) ==
    IF gt = "TRIANGLE"
    THEN [Nvert |-> 7, NEsplit |-> 3, scale |-> 6,
          v |-> << <<0, 0>>, <<3, 0>>, <<6, 0>>, <<0, 3>>,
                   <<3, 2>>, <<3, 3>>, <<0, 6>> >>,
          e |-> << <<3, 4, 1, 0>>, <<4, 5, 2, 1>>, <<6, 5, 4, 3>> >>]
    ELSE IF gt = "TETRAHEDRON"
    THEN [Nvert |-> 15, NEsplit |-> 4, scale |-> 12,
          v |-> << <<0, 0, 0>>, <<12, 0, 0>>, <<0, 12, 0>>, <<0, 0, 12>>,
                   <<6, 0, 0>>, <<6, 6, 0>>, <<0, 6, 0>>,
                   <<0, 0, 6>>, <<6, 0, 6>>, <<0, 6, 6>>,
                   <<4, 0, 4>>, <<4, 4, 4>>, <<0, 4, 4>>,
                   <<4, 4, 0>>, <<3, 3, 3>> >>,
          e |-> << <<0, 4, 10, 7, 6, 13, 14, 12>>,
                   <<4, 1, 8, 10, 13, 5, 11, 14>>,
                   <<13, 5, 11, 14, 6, 2, 9, 12>>,
                   <<10, 8, 3, 7, 14, 11, 9, 12>> >>]
    ELSE [Nvert |-> 14, NEsplit |-> 3, scale |-> 6,
          v |-> << <<0, 0, 0>>, <<3, 0, 0>>, <<6, 0, 0>>, <<0, 3, 0>>,
                   <<2, 2, 0>>, <<3, 3, 0>>, <<0, 6, 0>>,
                   <<0, 0, 6>>, <<3, 0, 6>>, <<6, 0, 6>>, <<0, 3, 6>>,
                   <<2, 2, 6>>, <<3, 3, 6>>, <<0, 6, 6>> >>,
          e |-> << <<3, 4, 1, 0, 10, 11, 8, 7>>,
                   <<4, 5, 2, 1, 11, 12, 9, 8>>,
                   <<6, 5, 4, 3, 13, 12, 11, 10>> >>]

\* The reference sub-mesh of a simplex: quad_v / quad_e and hex_v / hex_e.
\* Vertex j (from 0) is v[j + 1], sub-element i (from 0) is e[i + 1].  The
\* coordinates are those of the source multiplied by scale, which makes the
\* halves, thirds and quarters of the tables integers.
SubMesh(gt) ==
    IF gt = "TRIANGLE"
    THEN [Nvert |-> 7, NEsplit |-> 3, scale |-> 6,
          v |-> << <<0, 0>>, <<3, 0>>, <<6, 0>>, <<0, 3>>,
                   <<2, 2>>, <<3, 3>>, <<0, 6>> >>,
          e |-> << <<3, 4, 1, 0>>, <<4, 5, 2, 1>>, <<6, 5, 4, 3>> >>]
    ELSE IF gt = "TETRAHEDRON"
    THEN [Nvert |-> 15, NEsplit |-> 4, scale |-> 12,
          v |-> << <<0, 0, 0>>, <<12, 0, 0>>, <<0, 12, 0>>, <<0, 0, 12>>,
                   <<6, 0, 0>>, <<6, 6, 0>>, <<0, 6, 0>>,
                   <<0, 0, 6>>, <<6, 0, 6>>, <<0, 6, 6>>,
                   <<4, 0, 4>>, <<4, 4, 4>>, <<0, 4, 4>>,
                   <<4, 4, 0>>, <<3, 3, 3>> >>,
          e |-> << <<0, 4, 10, 7, 6, 13, 14, 12>>,
                   <<4, 1, 8, 10, 13, 5, 11, 14>>,
                   <<13, 5, 11, 14, 6, 2, 9, 12>>,
                   <<10, 8, 3, 7, 14, 11, 9, 12>> >>]
    ELSE [Nvert |-> 14, NEsplit |-> 3, scale |-> 6,
          v |-> << <<0, 0, 0>>, <<3, 0, 0>>, <<6, 0, 0>>, <<0, 3, 0>>,
                   <<2, 2, 0>>, <<3, 3, 0>>, <<0, 6, 0>>,
                   <<0, 0, 6>>, <<3, 0, 6>>, <<6, 0, 6>>, <<0, 3, 6>>,
                   <<2, 2, 6>>, <<3, 3, 6>>, <<0, 6, 6>> >>,
          e |-> << <<3, 4, 1, 0, 10, 11, 8, 7>>,
                   <<4, 5, 2, 1, 11, 12, 9, 8>>,
                   <<6, 5, 4, 3, 13, 12, 11, 10>> >>]

SimplexTable(gt, d, p) ==
    LET dof_cnt == Pow(p + 1, d)
        pts_cnt == NEsplitOf(gt) * dof_cnt
        dof_map == GetDofMap(d, p)
    IN  [pt_id \in 0 .. pts_cnt - 1 |->
            <<"S", pt_id \div dof_cnt, dof_map[pt_id % dof_cnt]>>]

\* SimplexCloud storing the coordinates of a point next to one another.
SimplexCloud_PointMajor(m, d, ir) ==
    LET NE          == GetNE(m)
        pts_cnt     == Size(ir)
        tot_pts_cnt == pts_cnt * NE
    IN  [x \in 0 .. tot_pts_cnt * d - 1 |->
            LET c     == x % d
                pt_id == x \div d
            IN  <<"F", pt_id \div pts_cnt, ir[pt_id % pts_cnt], c>>]

\* SimplexCloud taking the positions of the nodes of the sub-mesh itself.
SimplexCloud_SubMeshMap(m, d, ir) ==
    LET NE          == GetNE(m)
        pts_cnt     == Size(ir)
        tot_pts_cnt == pts_cnt * NE
    IN  [x \in 0 .. tot_pts_cnt * d - 1 |->
            LET c     == x \div tot_pts_cnt
                pt_id == x % tot_pts_cnt
            IN  <<"R", ir[pt_id % pts_cnt], c>>]

\* SimplexCloud starting the table one point later in each further element.
SimplexCloud_ShiftedTable(m, d, ir) ==
    LET NE          == GetNE(m)
        pts_cnt     == Size(ir)
        tot_pts_cnt == pts_cnt * NE
    IN  [x \in 0 .. tot_pts_cnt * d - 1 |->
            LET c     == x \div tot_pts_cnt
                pt_id == x % tot_pts_cnt
                j     == pt_id \div pts_cnt
            IN  <<"F", j, ir[(pt_id + j) % pts_cnt], c>>]

SimplexCloud(m, d, ir) ==
    LET NE          == GetNE(m)
        pts_cnt     == Size(ir)
        tot_pts_cnt == pts_cnt * NE
    IN  [x \in 0 .. tot_pts_cnt * d - 1 |->
            LET c     == x \div tot_pts_cnt
                pt_id == x % tot_pts_cnt
            IN  <<"F", pt_id \div pts_cnt, ir[pt_id % pts_cnt], c>>]

GetSimplexNodalCoordinates(m, d) ==
    IF ~H1_FECollection_ok(m.order)
    THEN [ok |-> FALSE, msg |-> "H1_FECollection requires order >= 1."]
    ELSE LET ir == SimplexTable(m.geom[0], d, m.order)
         IN  [ok |-> TRUE, msg |-> "", ir |-> ir, gsl |-> SimplexCloud(m, d, ir)]

(***************************************************************************)
(* The gslib engine.  A handle is "live2"/"live3" from findpts_setup_2/_3  *)
(* until findpts_free_2/_3.  Handle ids name allocations.  A routine given *)
(* a null or released handle has undefined behaviour: the run crashes or   *)
(* goes on with indeterminate output.                                      *)
(***************************************************************************)
HandleIds == 1 .. MaxHandles

HState(h) ==
    IF h = 0 THEN "null"
    ELSE IF handles[h] \in {"live2", "live3"} THEN "live"
    ELSE "released"

HandlesLeft == \E h \in HandleIds : handles[h] = "unused"

NewHandle == CHOOSE h \in HandleIds :
    handles[h] = "unused" /\ \A k \in HandleIds : handles[k] = "unused" => h <= k

NewTable == CHOOSE t \in HandleIds :
    tables[t].st = "unused" /\ \A k \in HandleIds : tables[k].st = "unused" => t <= k

\* What findpts writes for one query point: code 0 found inside an element,
\* 1 found on an element border, 2 not found.
EngineOutputs ==
    {[code |-> 0, proc |-> 0, elem |-> 0, ref |-> "r0", dist |-> "d0"],
     [code |-> 1, proc |-> 0, elem |-> 1, ref |-> "r1", dist |-> "d1"],
     [code |-> 2, proc |-> 0, elem |-> 0, ref |-> "none", dist |-> "far"]}

Indeterminate ==
    [code |-> "?", proc |-> "?", elem |-> "?", ref |-> "?", dist |-> "?"]

Op(op, arg, out, msg) == [op |-> op, arg |-> arg, out |-> out, msg |-> msg]

Init ==
    /\ mesh = NoMesh
    /\ dim = -1
    /\ gsl_mesh = EmptyArray
    /\ ir_simplex = 0
    /\ fdata2D = 0
    /\ fdata3D = 0
    /\ gsl_comm = "allocated"
    /\ handles = [h \in HandleIds |-> "unused"]
    /\ tables = [t \in HandleIds |-> [st |-> "unused", ip |-> EmptyArray]]
    /\ results = EmptyArray
    /\ calls = <<>>
    /\ lastOp = Op("FindPointsGSLIB", 0, "ok", "")
    /\ proc = "running"

(***************************************************************************)
(* Setup(m, bb_t, newt_tol, npt_max)                                       *)
(***************************************************************************)
\* SetupPrecondition without the check of the number of geometries.
SetupPrecondition_NoGeometryCheck(m) ==
    IF ~m.hasNodes THEN "Mesh nodes are required." ELSE ""

\* The two MFEM_VERIFY at the head of Setup: "" when both pass.
SetupPrecondition(m) ==
    IF ~m.hasNodes THEN "Mesh nodes are required."
    ELSE IF GetNumGeometries(m, m.Dim) # 1
    THEN "Mixed meshes are not currently supported in FindPointsGSLIB."
    ELSE ""

\* The dispatch on the geometry of element 0.
SetupCoordinates(m, d) ==
    LET gt == m.geom[0]
    IN  IF gt \in Simplices THEN GetSimplexNodalCoordinates(m, d) @@ [simplex |-> TRUE]
        ELSE IF gt \in Tensors THEN GetQuadHexNodalCoordinates(m, d) @@ [simplex |-> FALSE]
        ELSE [ok |-> FALSE, simplex |-> FALSE,
              msg |-> "Element type not currently supported in FindPointsGSLIB."]

\* SetupCall counting the elements from the length of the point cloud.
SetupCall_CloudLength(d, order, cloud, h) ==
    LET dof1D   == order + 1
        pts_cnt == CDiv(Size(cloud), d)
        NEtot   == CDiv(Size(cloud), Pow(dof1D, d))
    IN  [fn |-> IF d = 2 THEN "findpts_setup_2" ELSE "findpts_setup_3",
         h |-> h, hstate |-> "new",
         a |-> [nr |-> [x \in 0 .. (IF d = 2 THEN 1 ELSE 2) |-> dof1D],
                mr |-> [x \in 0 .. (IF d = 2 THEN 1 ELSE 2) |-> 2 * dof1D],
                elx |-> [x \in 0 .. (IF d = 2 THEN 1 ELSE 2) |-> x * pts_cnt],
                nel |-> NEtot, npt |-> pts_cnt]]

\* SetupCall with the hash mesh as coarse as the element grid.
SetupCall_SameGrids(d, order, cloud, h) ==
    LET dof1D   == order + 1
        pts_cnt == CDiv(Size(cloud), d)
        NEtot   == CDiv(pts_cnt, Pow(dof1D, d))
    IN  [fn |-> IF d = 2 THEN "findpts_setup_2" ELSE "findpts_setup_3",
         h |-> h, hstate |-> "new",
         a |-> [nr |-> [x \in 0 .. (IF d = 2 THEN 1 ELSE 2) |-> dof1D],
                mr |-> [x \in 0 .. (IF d = 2 THEN 1 ELSE 2) |-> dof1D],
                elx |-> [x \in 0 .. (IF d = 2 THEN 1 ELSE 2) |-> x * pts_cnt],
                nel |-> NEtot, npt |-> pts_cnt]]

\* The arguments of findpts_setup_2 / findpts_setup_3.
SetupCall(d, order, cloud, h) ==
    LET dof1D   == order + 1
        pts_cnt == CDiv(Size(cloud), d)
        NEtot   == CDiv(pts_cnt, Pow(dof1D, d))
    IN  [fn |-> IF d = 2 THEN "findpts_setup_2" ELSE "findpts_setup_3",
         h |-> h, hstate |-> "new",
         a |-> [nr |-> [x \in 0 .. (IF d = 2 THEN 1 ELSE 2) |-> dof1D],
                mr |-> [x \in 0 .. (IF d = 2 THEN 1 ELSE 2) |-> 2 * dof1D],
                elx |-> [x \in 0 .. (IF d = 2 THEN 1 ELSE 2) |-> x * pts_cnt],
                nel |-> NEtot, npt |-> pts_cnt]]

Setup(m) ==
    /\ proc = "running"
    /\ HandlesLeft
    /\ UNCHANGED <<gsl_comm, results>>
    /\ LET pre == SetupPrecondition(m)
       IN  IF pre # ""
           THEN /\ lastOp' = Op("Setup", m, "fatal", pre)
                /\ calls' = <<>>
                /\ UNCHANGED <<mesh, dim, gsl_mesh, ir_simplex, fdata2D, fdata3D,
                               handles, tables, proc>>
           ELSE /\ mesh' = m
                /\ dim' = m.Dim
                /\ IF GetNE(m) = 0
                   THEN \* GetFE(0) of a space without elements
                        /\ lastOp' = Op("Setup", m, "crash", "GetFE(0): no element 0")
                        /\ proc' = "crashed"
                        /\ calls' = <<>>
                        /\ UNCHANGED <<gsl_mesh, ir_simplex, fdata2D, fdata3D,
                                       handles, tables>>
                   ELSE LET c == SetupCoordinates(m, m.Dim)
                        IN  IF ~c.ok
                            THEN /\ lastOp' = Op("Setup", m, "fatal", c.msg)
                                 /\ calls' = <<>>
                                 /\ gsl_mesh' = IF "gsl" \in DOMAIN c THEN c.gsl ELSE gsl_mesh
                                 /\ UNCHANGED <<ir_simplex, fdata2D, fdata3D, handles,
                                                tables, proc>>
                            ELSE LET h == NewHandle
                                     t == NewTable
                                 IN  /\ gsl_mesh' = c.gsl
                                     /\ IF c.simplex
                                        THEN /\ ir_simplex' = t
                                             /\ tables' = [tables EXCEPT
                                                    ![t] = [st |-> "live", ip |-> c.ir]]
                                        ELSE UNCHANGED <<ir_simplex, tables>>
                                     /\ calls' = <<SetupCall(m.Dim, m.order, c.gsl, h)>>
                                     /\ handles' = [handles EXCEPT
                                            ![h] = IF m.Dim = 2 THEN "live2" ELSE "live3"]
                                     /\ fdata2D' = IF m.Dim = 2 THEN h ELSE fdata2D
                                     /\ fdata3D' = IF m.Dim = 2 THEN fdata3D ELSE h
                                     /\ lastOp' = Op("Setup", m, "ok", "")
                                     /\ UNCHANGED proc

\* QueryFrame of a query that uses the point cloud as scratch space.
QueryFrame_DropsCloud ==
    /\ gsl_mesh' = EmptyArray
    /\ UNCHANGED <<mesh, dim, ir_simplex, fdata2D, fdata3D, gsl_comm,
                   handles, tables>>

(***************************************************************************)
(* FindPoints and Interpolate assign no data member: they read mesh, dim,  *)
(* ir_simplex and the handles, and neither calls findpts_setup nor         *)
(* findpts_free.                                                           *)
(***************************************************************************)
QueryFrame ==
    UNCHANGED <<mesh, dim, gsl_mesh, ir_simplex, fdata2D, fdata3D, gsl_comm,
                handles, tables>>

(***************************************************************************)
(* FindPoints(point_pos, codes, proc_ids, elem_ids, ref_pos, dist), with   *)
(* size the length of point_pos.  Offsets and strides are counted in array *)
(* elements.                                                               *)
(***************************************************************************)
FindCall_Interleaved(size) ==
    LET points_cnt == CDiv(size, dim)
        h == IF dim = 2 THEN fdata2D ELSE fdata3D
    IN  [fn |-> IF dim = 2 THEN "findpts_2" ELSE "findpts_3",
         h |-> h, hstate |-> HState(h),
         a |-> [npt |-> points_cnt, size |-> size,
                xv_base |-> [x \in 0 .. (IF dim = 2 THEN 1 ELSE 2) |-> x],
                xv_stride |-> dim, out_stride |-> 1, ref_stride |-> dim]]

\* The arguments of findpts_2 / findpts_3.
FindCall(size) ==
    LET points_cnt == CDiv(size, dim)
        h == IF dim = 2 THEN fdata2D ELSE fdata3D
    IN  [fn |-> IF dim = 2 THEN "findpts_2" ELSE "findpts_3",
         h |-> h, hstate |-> HState(h),
         a |-> [npt |-> points_cnt, size |-> size,
                xv_base |-> [x \in 0 .. (IF dim = 2 THEN 1 ELSE 2) |-> x * points_cnt],
                xv_stride |-> 1, out_stride |-> 1, ref_stride |-> dim]]

\* findpts: query point q is read at xv_base[d] + q * xv_stride for each axis
\* d, and its result r[q] is written at slot q * out_stride of the output
\* arrays, its reference coordinates starting at q * ref_stride of ref_pos.
EngineWrite(c, r) ==
    [s \in {q * c.a.out_stride : q \in 0 .. c.a.npt - 1} |->
        LET q == s \div c.a.out_stride
        IN  r[q] @@ [pt |-> [d \in DOMAIN c.a.xv_base |->
                                 c.a.xv_base[d] + q * c.a.xv_stride],
                     ref_at |-> q * c.a.ref_stride]]

FindPoints(size) ==
    /\ proc = "running"
    /\ QueryFrame
    /\ LET c == FindCall(size)
       IN  /\ calls' = <<c>>
           /\ IF c.hstate = "live"
              THEN /\ results' \in {EngineWrite(c, r) :
                                       r \in [0 .. c.a.npt - 1 -> EngineOutputs]}
                   /\ lastOp' = Op("FindPoints", size, "ok", "")
                   /\ UNCHANGED proc
              ELSE \/ /\ proc' = "crashed"
                      /\ lastOp' = Op("FindPoints", size, "crash", "invalid handle")
                      /\ UNCHANGED results
                   \/ /\ results' = [q \in 0 .. c.a.npt - 1 |-> Indeterminate]
                      /\ lastOp' = Op("FindPoints", size, "ok", "invalid handle")
                      /\ UNCHANGED proc

(***************************************************************************)
(* GetNodeValues(gf_in, node_vals) for component comp of the field.        *)
(* <<"V", comp, i, n>> is the component's value at native node n of        *)
(* element i, <<"G", comp, j, ip>> its value in element j at table point   *)
(* ip.  The result is "crash" when ir_simplex is NULL on the simplex path. *)
(***************************************************************************)
\* GetNodeValues sampling the first element only.
GetNodeValues_FirstElement(comp) ==
    LET gt == mesh.geom[0]
        NE == 1
    IN  IF gt \in Tensors
        THEN LET dof_cnt == Pow(mesh.order + 1, dim)
                 dof_map == GetDofMap(dim, mesh.order)
             IN  IF ~mesh.tensor
                 THEN [out |-> "fatal", msg |-> "TensorBasis FiniteElement expected."]
                 ELSE [out |-> "ok", msg |-> "",
                       vals |-> [pt_id \in 0 .. NE * dof_cnt - 1 |->
                           <<"V", comp, pt_id \div dof_cnt, dof_map[pt_id % dof_cnt]>>]]
        ELSE IF gt \in Simplices
        THEN IF ir_simplex = 0
             THEN [out |-> "crash", msg |-> "ir_simplex is NULL"]
             ELSE LET ir      == tables[ir_simplex].ip
                      dof_cnt == Size(ir)
                  IN  [out |-> "ok", msg |-> "",
                       vals |-> [pt_id \in 0 .. NE * dof_cnt - 1 |->
                           <<"G", comp, pt_id \div dof_cnt, ir[pt_id % dof_cnt]>>]]
        ELSE [out |-> "fatal", msg |-> "Element type not currently supported."]

\* GetNodeValues listing the values of an element in its native dof order.
GetNodeValues_NativeOrder(comp) ==
    LET gt == mesh.geom[0]
        NE == GetNE(mesh)
    IN  IF gt \in Tensors
        THEN LET dof_cnt == Pow(mesh.order + 1, dim)
             IN  IF ~mesh.tensor
                 THEN [out |-> "fatal", msg |-> "TensorBasis FiniteElement expected."]
                 ELSE [out |-> "ok", msg |-> "",
                       vals |-> [pt_id \in 0 .. NE * dof_cnt - 1 |->
                           <<"V", comp, pt_id \div dof_cnt, pt_id % dof_cnt>>]]
        ELSE IF gt \in Simplices
        THEN IF ir_simplex = 0
             THEN [out |-> "crash", msg |-> "ir_simplex is NULL"]
             ELSE LET ir      == tables[ir_simplex].ip
                      dof_cnt == Size(ir)
                  IN  [out |-> "ok", msg |-> "",
                       vals |-> [pt_id \in 0 .. NE * dof_cnt - 1 |->
                           <<"G", comp, pt_id \div dof_cnt, ir[pt_id % dof_cnt]>>]]
        ELSE [out |-> "fatal", msg |-> "Element type not currently supported."]

GetNodeValues(comp) ==
    LET gt == mesh.geom[0]
        NE == GetNE(mesh)
    IN  IF gt \in Tensors
        THEN LET dof_cnt == Pow(mesh.order + 1, dim)
                 dof_map == GetDofMap(dim, mesh.order)
             IN  IF ~mesh.tensor
                 THEN [out |-> "fatal", msg |-> "TensorBasis FiniteElement expected."]
                 ELSE [out |-> "ok", msg |-> "",
                       vals |-> [pt_id \in 0 .. NE * dof_cnt - 1 |->
                           <<"V", comp, pt_id \div dof_cnt, dof_map[pt_id % dof_cnt]>>]]
        ELSE IF gt \in Simplices
        THEN IF ir_simplex = 0
             THEN [out |-> "crash", msg |-> "ir_simplex is NULL"]
             ELSE LET ir      == tables[ir_simplex].ip
                      dof_cnt == Size(ir)
                  IN  [out |-> "ok", msg |-> "",
                       vals |-> [pt_id \in 0 .. NE * dof_cnt - 1 |->
                           <<"G", comp, pt_id \div dof_cnt, ir[pt_id % dof_cnt]>>]]
        ELSE [out |-> "fatal", msg |-> "Element type not currently supported."]

(***************************************************************************)
(* Interpolate(codes, proc_ids, elem_ids, ref_pos, field_in, field_out).   *)
(* A field is its vector dimension, its number of scalar dofs and whether  *)
(* it is defined on the mesh given to Setup.                               *)
(***************************************************************************)
Fields == [vdim : 1 .. MaxVDim, ndofs : 1 .. MaxFieldDofs, same : BOOLEAN]

\* The count Interpolate passes to findpts_eval and uses for its offsets.
InterpolateCount(f) == CDiv(f.vdim * f.ndofs, f.vdim)

\* int dataptr = i*points_cnt: the offset of component i in field_in and
\* in field_out.
DataPtr(f, i) == i * InterpolateCount(f)

\* The call of findpts_eval_2 / findpts_eval_3 for component i.
EvalCall(f, i, node_vals) ==
    LET points_cnt == InterpolateCount(f)
        dataptr    == DataPtr(f, i)
        h == IF dim = 2 THEN fdata2D ELSE fdata3D
    IN  [fn |-> IF dim = 2 THEN "findpts_eval_2" ELSE "findpts_eval_3",
         h |-> h, hstate |-> HState(h),
         a |-> [out |-> dataptr, npt |-> points_cnt, res |-> results,
                ref_stride |-> dim, in |-> dataptr, nvals |-> node_vals]]

\* InterpolateCalls sampling the field once, before the loop.
InterpolateCalls_SampledOnce(f, order) ==
    [k \in 1 .. Len(order) |-> EvalCall(f, order[k], GetNodeValues(order[1]).vals)]

\* The loop over the components, taken in the given order: node_vals is
\* resized and refilled by GetNodeValues before each call.
InterpolateCalls(f, order) ==
    [k \in 1 .. Len(order) |-> EvalCall(f, order[k], GetNodeValues(order[k]).vals)]

\* field_out after the engine served the calls cs one after the other: call
\* c writes slots c.a.out .. c.a.out + c.a.npt - 1, slot c.a.out + q getting
\* <<"E", comp, q>>, the interpolant of the component sampled in c.a.nvals at
\* query slot q.  Slots no call wrote are absent.
RECURSIVE FieldOut(_)
FieldOut(cs) ==
    IF cs = <<>> THEN EmptyArray
    ELSE LET c     == cs[Len(cs)]
             prev  == FieldOut(SubSeq(cs, 1, Len(cs) - 1))
             slice == c.a.out .. c.a.out + c.a.npt - 1
         IN  [x \in DOMAIN prev \cup slice |->
                 IF x \in slice THEN <<"E", c.a.nvals[0][2], x - c.a.out>>
                 ELSE prev[x]]

Interpolate(f) ==
    /\ proc = "running"
    /\ QueryFrame
    /\ UNCHANGED results
    /\ IF mesh = NoMesh
       THEN /\ proc' = "crashed"
            /\ calls' = <<>>
            /\ lastOp' = Op("Interpolate", f, "crash", "mesh is NULL")
       ELSE IF ~H1_FECollection_ok(mesh.order)
       THEN /\ calls' = <<>>
            /\ lastOp' = Op("Interpolate", f, "fatal", "H1_FECollection requires order >= 1.")
            /\ UNCHANGED proc
       ELSE LET nv == GetNodeValues(0)
                h  == IF dim = 2 THEN fdata2D ELSE fdata3D
                all == InterpolateCalls(f, [k \in 1 .. f.vdim |-> k - 1])
            IN  IF nv.out # "ok"
                THEN /\ calls' = <<>>
                     /\ lastOp' = Op("Interpolate", f, nv.out, nv.msg)
                     /\ proc' = IF nv.out = "crash" THEN "crashed" ELSE proc
                ELSE IF HState(h) = "live" /\ InterpolateCount(f) <= Size(results)
                THEN /\ calls' = all
                     /\ lastOp' = Op("Interpolate", f, "ok", "")
                     /\ UNCHANGED proc
                ELSE \* findpts_eval is given an invalid handle, or a count that
                     \* runs past the end of the caller's result arrays
                     LET why == IF HState(h) = "live" THEN "count past the results"
                                ELSE "invalid handle"
                     IN  \/ /\ calls' = <<all[1]>>
                            /\ lastOp' = Op("Interpolate", f, "crash", why)
                            /\ proc' = "crashed"
                         \/ /\ calls' = all
                            /\ lastOp' = Op("Interpolate", f, "ok", why)
                            /\ UNCHANGED proc

(***************************************************************************)
(* FreeData()                                                              *)
(***************************************************************************)
FreeCall ==
    LET h == IF dim = 2 THEN fdata2D ELSE fdata3D
    IN  [fn |-> IF dim = 2 THEN "findpts_free_2" ELSE "findpts_free_3",
         h |-> h, hstate |-> HState(h), a |-> [npt |-> 0]]

FreeData ==
    /\ proc = "running"
    /\ UNCHANGED <<mesh, dim, ir_simplex, fdata2D, fdata3D, gsl_comm, tables, results>>
    /\ LET c == FreeCall
       IN  /\ calls' = <<c>>
           /\ IF c.hstate = "live"
              THEN /\ handles' = [handles EXCEPT ![c.h] = "released"]
                   /\ gsl_mesh' = EmptyArray
                   /\ lastOp' = Op("FreeData", 0, "ok", "")
                   /\ UNCHANGED proc
              ELSE \/ /\ proc' = "crashed"
                      /\ lastOp' = Op("FreeData", 0, "crash", "invalid handle")
                      /\ UNCHANGED <<handles, gsl_mesh>>
                   \/ /\ gsl_mesh' = EmptyArray
                      /\ lastOp' = Op("FreeData", 0, "ok", "invalid handle")
                      /\ UNCHANGED <<handles, proc>>

(***************************************************************************)
(* ~FindPointsGSLIB()                                                      *)
(***************************************************************************)
Destructor ==
    /\ proc = "running"
    /\ proc' = "destroyed"
    /\ gsl_comm' = "deleted"
    /\ tables' = IF ir_simplex = 0 THEN tables
                 ELSE [tables EXCEPT ![ir_simplex].st = "deleted"]
    /\ gsl_mesh' = EmptyArray
    /\ calls' = <<>>
    /\ lastOp' = Op("~FindPointsGSLIB", 0, "ok", "")
    /\ UNCHANGED <<mesh, dim, ir_simplex, fdata2D, fdata3D, handles, results>>

Next ==
    \/ \E m \in Meshes : Setup(m)
    \/ \E size \in 0 .. MaxQuery : FindPoints(size)
    \/ \E f \in Fields : Interpolate(f)
    \/ FreeData
    \/ Destructor

Spec == Init /\ [][Next]_vars

\* Setup, FreeData and the destructor alone: the life cycle of the point
\* cloud and of the handles, over every mesh of Meshes.
NextSetup ==
    \/ \E m \in Meshes : Setup(m)
    \/ FreeData
    \/ Destructor

SpecSetup == Init /\ [][NextSetup]_vars

\* The meshes Setup accepts: every supported geometry, with one element and
\* with MaxNE elements, at order 1 and at order MaxOrder.
CloudMeshes ==
    {MeshOf(GeomDim(g), TRUE, Uniform(g, ne), p, g \in Tensors) :
        g \in Simplices \cup Tensors, ne \in {1, MaxNE}, p \in {1, MaxOrder}}

\* The construction of the point cloud and its registration with the engine.
NextCloud ==
    \/ \E m \in CloudMeshes : Setup(m)
    \/ FreeData
    \/ Destructor

SpecCloud == Init /\ [][NextCloud]_vars

\* The meshes of the search runs: a mesh of squares, a cube, and a 1D mesh,
\* which Setup rejects after it stored the mesh and its dimension.
FindMeshes ==
    {MeshOf(2, TRUE, Uniform("SQUARE", MaxNE), 1, TRUE),
     MeshOf(3, TRUE, Uniform("CUBE", 1), 1, TRUE),
     MeshOf(1, TRUE, Uniform("SEGMENT", 1), 1, TRUE)}

\* Searches on the meshes of FindMeshes.
NextFind ==
    \/ \E m \in FindMeshes : Setup(m)
    \/ \E size \in 0 .. MaxQuery : FindPoints(size)
    \/ FreeData
    \/ Destructor

SpecFind == Init /\ [][NextFind]_vars

\* The meshes of the interpolation runs: a tensor mesh of squares, a cube, a
\* triangle and a mesh of squares without a tensor basis.
QueryMeshes ==
    {MeshOf(2, TRUE, Uniform("SQUARE", MaxNE), 1, TRUE),
     MeshOf(3, TRUE, Uniform("CUBE", 1), 1, TRUE),
     MeshOf(2, TRUE, Uniform("TRIANGLE", MaxNE), 1, FALSE),
     MeshOf(2, TRUE, Uniform("SQUARE", 1), 1, FALSE)}

\* Searches on the meshes of QueryMeshes and interpolations of fields that
\* are defined on the mesh given to Setup.
NextQuery ==
    \/ \E m \in QueryMeshes : Setup(m)
    \/ \E size \in 0 .. MaxQuery : FindPoints(size)
    \/ \E f \in {g \in Fields : g.same} : Interpolate(f)
    \/ FreeData
    \/ Destructor

SpecQuery == Init /\ [][NextQuery]_vars

(***************************************************************************)
(* The states of the Search Facade.  The class keeps no state field: the   *)
(* instance is Ready when the handle FindPoints would use is live.         *)
(***************************************************************************)
CurrentHandle == IF dim = 2 THEN fdata2D ELSE fdata3D

Ready == proc = "running" /\ HState(CurrentHandle) = "live"

LiveHandles == {h \in HandleIds : handles[h] \in {"live2", "live3"}}

FreeFns  == {"findpts_free_2", "findpts_free_3"}
SetupFns == {"findpts_setup_2", "findpts_setup_3"}
FindFns  == {"findpts_2", "findpts_3"}
EvalFns  == {"findpts_eval_2", "findpts_eval_3"}

CallsOf(fns) == {calls[i] : i \in {k \in DOMAIN calls : calls[k].fn \in fns}}

(***************************************************************************)
(* Claims.                                                                 *)
(***************************************************************************)

\* C1: FreeData is idempotent.  A FreeData that directly follows a FreeData
\* which released the search structure does not hand the released handle to
\* the engine's free routine and does not fault.
C1_FreeDataIdempotent ==
    [][(lastOp = Op("FreeData", 0, "ok", "") /\ lastOp'.op = "FreeData")
         => /\ \A i \in DOMAIN calls' :
                  ~(calls'[i].fn \in FreeFns /\ calls'[i].hstate = "released")
            /\ proc' = "running"]_vars

\* C2: after a successful Setup the instance owns exactly one live engine
\* handle, the one it stores: no handle of an earlier Setup is left
\* unreleased.
C2_SetupReleasesPrevious ==
    (lastOp.op = "Setup" /\ lastOp.out = "ok") => LiveHandles = {CurrentHandle}

\* C3: findpts and findpts_eval are only ever given a live handle, never a
\* handle that was not created or that FreeData released.
C3_EngineOnlyWhileReady ==
    \A c \in CallsOf(FindFns \cup EvalFns) : c.hstate = "live"

\* C4: once the instance is destroyed no search structure it acquired is
\* still live.
C4_DestructorReleases ==
    proc = "destroyed" => LiveHandles = {}

\* C5: FreeData called in Ready leaves the point cloud empty and both stored
\* handles null, so the instance is no longer Ready; a Setup that succeeds
\* reaches Ready.
C5_FreeDataClears ==
    [][/\ (Ready /\ lastOp'.op = "FreeData")
            => (gsl_mesh' = EmptyArray /\ fdata2D' = 0 /\ fdata3D' = 0 /\ ~Ready')
       /\ (lastOp'.op = "Setup" /\ lastOp'.out = "ok") => Ready']_vars

\* C6: a Setup that ends with a fatal configuration error calls no engine
\* routine and leaves mesh, dim, the point cloud, the integration-point
\* table and the handles as they were before the call.
C6_FailedSetupKeepsState ==
    [][(lastOp'.op = "Setup" /\ lastOp'.out = "fatal")
         => /\ calls' = <<>>
            /\ UNCHANGED <<mesh, dim, gsl_mesh, ir_simplex, tables, fdata2D, fdata3D,
                           handles>>]_vars

\* C7: Setup on a mesh without elements ends with a fatal error: element 0
\* is not read and the engine's setup routine is not called.
C7_EmptyMeshRejected ==
    (lastOp.op = "Setup" /\ GetNE(lastOp.arg) = 0)
        => (lastOp.out = "fatal" /\ CallsOf(SetupFns) = {} /\ proc = "running")

C7_Witness ==
    /\ lastOp.op = "Setup"
    /\ lastOp.arg.hasNodes
    /\ GetNE(lastOp.arg) = 0
    /\ lastOp.out = "fatal"

\* C8: Setup on a mesh whose nodal order is 0 or negative ends with a fatal
\* error, and the engine's setup routine is never given a per-axis
\* resolution of 1 or less.
C8_OrderZeroIsFatal ==
    /\ (lastOp.op = "Setup" /\ lastOp.arg.order <= 0)
           => (lastOp.out = "fatal" /\ calls = <<>>)
    /\ \A c \in CallsOf(SetupFns) : \A x \in DOMAIN c.a.nr : c.a.nr[x] > 1

\* C9: FindPoints in Ready with a query buffer whose length is not a
\* multiple of dim ends with a fatal error and does not call the engine.
C9_QueryLengthChecked ==
    (lastOp.op = "FindPoints" /\ Ready /\ lastOp.arg % dim # 0)
        => (lastOp.out = "fatal" /\ calls = <<>>)

\* C10: in Ready, FindPoints and Interpolate complete normally whatever the
\* status codes, and findpts_eval receives the results of every query point
\* as findpts wrote them: the caller's arrays, read over all their slots.
C10_ResultsPassThrough ==
    /\ (lastOp.op = "FindPoints" /\ Ready)
           => (lastOp.out = "ok" /\ Size(results) = calls[1].a.npt)
    /\ (lastOp.op = "Interpolate" /\ Ready /\ lastOp.out # "fatal"
            /\ Size(results) > 0)
           => /\ lastOp.out = "ok"
              /\ \A c \in CallsOf(EvalFns) :
                     c.a.res = results /\ c.a.npt = Size(results)


(***************************************************************************)
(* The point cloud.                                                        *)
(***************************************************************************)
SetupSucceeded == lastOp.op = "Setup" /\ lastOp.out = "ok"

\* The points the cloud holds for one element of m: the dofs of the element
\* on a square or a cube, the dofs of the NEsplit sub-elements on a simplex.
PointsPerElement(m) ==
    IF m.geom[0] \in Tensors THEN Pow(m.order + 1, m.Dim)
    ELSE NEsplitOf(m.geom[0]) * Pow(m.order + 1, m.Dim)

\* The k-th point of element e: the node of lexicographic slot k, or the
\* nodal grid function of e at the k-th point of the cached table.
CloudPoint(e, k, d) ==
    IF mesh.geom[0] \in Tensors
    THEN <<"X", e, GetDofMap(dim, mesh.order)[k], d>>
    ELSE <<"F", e, tables[ir_simplex].ip[k], d>>

\* C11: after a successful Setup the point cloud has exactly
\* NE x pointsPerElement x dim entries, pointsPerElement being the dof count
\* of an element on squares and cubes and NEsplit times the dof count of a
\* sub-element on simplices.
C11_CloudLength ==
    SetupSucceeded =>
        Size(gsl_mesh) = GetNE(mesh) * PointsPerElement(mesh) * dim

C11_Witness ==
    /\ SetupSucceeded
    /\ mesh.geom[0] = "TETRAHEDRON" /\ mesh.order = MaxOrder /\ GetNE(mesh) = MaxNE
    /\ Size(gsl_mesh) = MaxNE * 4 * Pow(MaxOrder + 1, 3) * 3

\* C12: after a successful Setup coordinate d of the k-th point of element e
\* is at index d*P + e*pointsPerElement + k, P being the number of points;
\* these indices are pairwise distinct and cover [0, dim*P), so every entry
\* is written exactly once; and the engine gets offsets 0, P (and 2P) as the
\* bases of the axes.
C12_CloudLayout ==
    SetupSucceeded =>
        LET ppe == PointsPerElement(mesh)
            NE  == GetNE(mesh)
            P   == NE * ppe
            Idx == [t \in (0 .. dim - 1) \X (0 .. NE - 1) \X (0 .. ppe - 1) |->
                       t[1] * P + t[2] * ppe + t[3]]
        IN  /\ \A t \in DOMAIN Idx :
                   /\ Idx[t] \in DOMAIN gsl_mesh
                   /\ gsl_mesh[Idx[t]] = CloudPoint(t[2], t[3], t[1])
            /\ {Idx[t] : t \in DOMAIN Idx} = 0 .. dim * P - 1
            /\ DOMAIN gsl_mesh = 0 .. dim * P - 1
            /\ Cardinality(DOMAIN Idx) = dim * P
            /\ Len(calls) = 1
            /\ calls[1].a.elx = [x \in 0 .. dim - 1 |-> x * P]
            /\ calls[1].a.npt = P

C12_Witness ==
    /\ SetupSucceeded
    /\ mesh.geom[0] = "PRISM" /\ mesh.order = MaxOrder /\ GetNE(mesh) = MaxNE
    /\ calls[1].a.elx[2] = 2 * MaxNE * 3 * Pow(MaxOrder + 1, 3)
    /\ gsl_mesh[2 * MaxNE * 3 * Pow(MaxOrder + 1, 3) + 3 * Pow(MaxOrder + 1, 3)]
           = <<"F", 1, tables[ir_simplex].ip[0], 2>>

(***************************************************************************)
(* Searches.                                                               *)
(***************************************************************************)
\* C13: FindPoints in Ready, given N points stored dimension-major, asks the
\* engine for exactly N points; the engine reads coordinate d of its point q
\* at index d*N + q and its results fill slots 0 .. N-1, slot q holding the
\* result of query point q with its reference coordinates at
\* ref_pos[q*dim .. q*dim + dim - 1].
C13_OneResultPerPoint ==
    (lastOp.op = "FindPoints" /\ Ready /\ lastOp.arg % dim = 0) =>
        LET N == lastOp.arg \div dim
        IN  /\ Len(calls) = 1
            /\ calls[1].fn \in FindFns
            /\ calls[1].a.npt = N
            /\ DOMAIN results = 0 .. N - 1
            /\ \A q \in 0 .. N - 1 :
                   /\ \A d \in 0 .. dim - 1 : results[q].pt[d] = d * N + q
                   /\ results[q].ref_at = q * dim

C13_Witness ==
    /\ lastOp.op = "FindPoints" /\ Ready /\ dim = 2 /\ lastOp.arg = 4
    /\ results[0].code = 2 /\ results[1].code = 0
    /\ results[1].pt = (0 :> 1) @@ (1 :> 3)

(***************************************************************************)
(* Interpolation.                                                          *)
(***************************************************************************)
InterpolateDone == lastOp.op = "Interpolate" /\ lastOp.out = "ok"

\* C14: an Interpolate that completes in Ready has called the evaluation
\* routine once per component of the field, each time for N points, N being
\* the number of query results whatever the dof count of the field, and
\* component c is written to entries [c*N, (c+1)*N) of the output.
C14_EvalCountIsQueryCount ==
    (InterpolateDone /\ Ready) =>
        LET N == Size(results)
        IN  /\ Len(calls) = lastOp.arg.vdim
            /\ \A c \in 0 .. lastOp.arg.vdim - 1 :
                   /\ calls[c + 1].fn \in EvalFns
                   /\ calls[c + 1].a.npt = N
                   /\ calls[c + 1].a.out = c * N

\* The orders in which a loop can visit components 0 .. n-1.
Perms(n) ==
    {o \in [1 .. n -> 0 .. n - 1] : \A i, j \in 1 .. n : o[i] = o[j] => i = j}

\* The output entries call c writes.
Slice(c) == c.a.out .. c.a.out + c.a.npt - 1

\* C15: when Interpolate has made its calls for every component, the output
\* is the one any other order of the component loop produces: each call
\* samples its own component at its own offset of the input, and the
\* output slices of distinct components are disjoint.
C15_OrderIndependent ==
    (InterpolateDone /\ Len(calls) = lastOp.arg.vdim) =>
        /\ \A o \in Perms(lastOp.arg.vdim) :
               FieldOut(InterpolateCalls(lastOp.arg, o)) = FieldOut(calls)
        /\ \A i, j \in DOMAIN calls :
               i # j => Slice(calls[i]) \cap Slice(calls[j]) = {}
        /\ \A i \in DOMAIN calls :
               /\ calls[i].a.in = DataPtr(lastOp.arg, i - 1)
               /\ \A x \in DOMAIN calls[i].a.nvals : calls[i].a.nvals[x][2] = i - 1

C15_Witness ==
    /\ InterpolateDone /\ Ready
    /\ lastOp.arg.vdim = 2 /\ lastOp.arg.ndofs = 2 /\ Size(results) = 2
    /\ FieldOut(calls) = (0 :> <<"E", 0, 0>>) @@ (1 :> <<"E", 0, 1>>)
                          @@ (2 :> <<"E", 1, 0>>) @@ (3 :> <<"E", 1, 1>>)
    /\ FieldOut(InterpolateCalls(lastOp.arg, <<1, 0>>)) = FieldOut(calls)

\* C16: an Interpolate given a field that is not defined on the mesh of the
\* last Setup ends with a fatal error, the evaluation routine is not called
\* and nothing is written to the output.
C16_ForeignFieldIsFatal ==
    (lastOp.op = "Interpolate" /\ ~lastOp.arg.same) =>
        /\ lastOp.out = "fatal"
        /\ CallsOf(EvalFns) = {}
        /\ FieldOut(calls) = EmptyArray

\* C17: a FindPoints or Interpolate step leaves the point cloud, the handles
\* and their engine structures, the stored mesh, the dimension and the
\* cached table as they were, and a call that returns in Ready leaves the
\* instance Ready.
C17_QueriesAreReadOnly ==
    [][lastOp'.op \in {"FindPoints", "Interpolate"} =>
          /\ UNCHANGED <<gsl_mesh, fdata2D, fdata3D, handles, mesh, dim,
                         ir_simplex, tables>>
          /\ (Ready /\ lastOp'.out # "crash") => Ready']_vars

C17_Witness ==
    /\ InterpolateDone /\ Ready
    /\ Size(results) = 2 /\ Len(calls) = 2
    /\ gsl_mesh # EmptyArray /\ ir_simplex # 0 /\ tables[ir_simplex].st = "live"

\* C18: the tensor-basis check of GetNodeValues fails during Interpolate
\* only on a mesh that Setup rejects: once Setup has succeeded on the stored
\* mesh, sampling a field on it cannot fail that check.
C18_BasisCheckedAtSetup ==
    (lastOp.op = "Interpolate" /\ lastOp.msg = "TensorBasis FiniteElement expected.") =>
        ~(SetupPrecondition(mesh) = "" /\ SetupCoordinates(mesh, mesh.Dim).ok)

C18_Witness ==
    /\ InterpolateDone /\ Ready
    /\ mesh.geom[0] \in Tensors
    /\ SetupPrecondition(mesh) = "" /\ SetupCoordinates(mesh, mesh.Dim).ok
    /\ Len(calls) = lastOp.arg.vdim
    /\ calls[1].a.nvals[0] = <<"V", 0, 0, 0>>

(***************************************************************************)
(* The grids of the engine.                                                *)
(***************************************************************************)
\* C19: a successful Setup calls findpts_setup with, on each of the dim
\* axes, order + 1 points for the element grid and twice as many for the
\* acceleration grid.
C19_GridResolutions ==
    SetupSucceeded =>
        /\ Len(calls) = 1
        /\ calls[1].fn = (IF dim = 2 THEN "findpts_setup_2" ELSE "findpts_setup_3")
        /\ DOMAIN calls[1].a.nr = 0 .. dim - 1
        /\ DOMAIN calls[1].a.mr = 0 .. dim - 1
        /\ \A x \in 0 .. dim - 1 :
               /\ calls[1].a.nr[x] = mesh.order + 1
               /\ calls[1].a.mr[x] = 2 * (mesh.order + 1)

C19_Witness ==
    /\ SetupSucceeded
    /\ mesh.geom[0] = "TRIANGLE" /\ mesh.order = MaxOrder
    /\ calls[1].a.nr = (0 :> MaxOrder + 1) @@ (1 :> MaxOrder + 1)
    /\ calls[1].a.mr = (0 :> 2 * MaxOrder + 2) @@ (1 :> 2 * MaxOrder + 2)

(***************************************************************************)
(* Reproduction of affine fields.  The engine evaluates, at a reference    *)
(* position r of an element, sum_k w_k(r) * node_vals[k] over the slots k  *)
(* of that element, with the weights w_k of the slots it was given in the  *)
(* point cloud, which sum to 1 and map r to sum_k w_k(r) * cloud[k].  For  *)
(* a field a.x + b, the value found for a query point is a.x(r) + b, the   *)
(* field at the located point, when slot k of node_vals is the field at    *)
(* the point whose coordinates are in slot k of the cloud, and when the    *)
(* engine is asked to evaluate that query point.                           *)
(***************************************************************************)
\* Slot k of nv is the value of component c at the point of slot k of the
\* point cloud.
Aligned(nv, c) ==
    /\ dim * Size(nv) = Size(gsl_mesh)
    /\ \A k \in DOMAIN nv :
           /\ nv[k][2] = c
           /\ <<nv[k][3], nv[k][4]>> = <<gsl_mesh[k][2], gsl_mesh[k][3]>>

\* Query point q was located by the engine: its slot holds the reference
\* position of a point of the mesh.
Found(q) == results[q].ref \in {"r0", "r1"}

\* C20: an Interpolate that completes in Ready on a field of the Setup mesh
\* has evaluated every component at each of the N query results, from node
\* values aligned with the point cloud, and the output holds at entry
\* c*N + q the value of component c at every query point q that was found:
\* for an affine field, the field itself at that point.
C20_AffineReproduced ==
    (InterpolateDone /\ Ready /\ lastOp.arg.same) =>
        LET N == Size(results)
            f == lastOp.arg
        IN  /\ Len(calls) = f.vdim
            /\ \A c \in 0 .. f.vdim - 1 :
                   /\ calls[c + 1].a.npt = N
                   /\ calls[c + 1].a.res = results
                   /\ Aligned(calls[c + 1].a.nvals, c)
                   /\ \A q \in 0 .. N - 1 :
                          Found(q) =>
                              /\ c * N + q \in DOMAIN FieldOut(calls)
                              /\ FieldOut(calls)[c * N + q] = <<"E", c, q>>

(***************************************************************************)
(* The Field Sampler.                                                      *)
(***************************************************************************)
\* The value of component c at the k-th point of element e: at the node of
\* lexicographic slot k, or in e at the k-th point of the cached table.
FieldPoint(c, e, k) ==
    IF mesh.geom[0] \in Tensors
    THEN <<"V", c, e, GetDofMap(dim, mesh.order)[k]>>
    ELSE <<"G", c, e, tables[ir_simplex].ip[k]>>

\* C21: in every evaluation call of an Interpolate that completes in Ready,
\* entry e*pointsPerElement + k of the nodal values is the value of the
\* component at the point whose coordinates are at point index
\* e*pointsPerElement + k of the point cloud: native dof dof_map[k] of
\* element e in both on squares and cubes, table point k in element e in
\* both on simplices.
C21_SampledAtCloudPoints ==
    (InterpolateDone /\ Ready) =>
        LET ppe == PointsPerElement(mesh)
            P   == GetNE(mesh) * ppe
        IN  \A i \in DOMAIN calls :
              /\ DOMAIN calls[i].a.nvals = 0 .. P - 1
              /\ \A e \in 0 .. GetNE(mesh) - 1 : \A k \in 0 .. ppe - 1 :
                     /\ calls[i].a.nvals[e * ppe + k] = FieldPoint(i - 1, e, k)
                     /\ \A d \in 0 .. dim - 1 :
                            gsl_mesh[d * P + e * ppe + k] = CloudPoint(e, k, d)

C21_Witness ==
    /\ InterpolateDone /\ Ready /\ Len(calls) = 2
    /\ mesh.geom[0] = "SQUARE" /\ GetNE(mesh) = MaxNE
    /\ calls[2].a.nvals[4 + 2] = <<"V", 1, 1, 3>>
    /\ gsl_mesh[4 * MaxNE + 4 + 2] = <<"X", 1, 3, 1>>

(***************************************************************************)
(* The reference sub-mesh of a simplex.                                    *)
(***************************************************************************)
SimplexSetupSucceeded == SetupSucceeded /\ mesh.geom[0] \in Simplices

\* The vertex indices of sub-element i (from 1) of sub-mesh sm.
VerticesOf(sm, i) == {sm.e[i][n] : n \in DOMAIN sm.e[i]}

\* C22: the sub-mesh a successful Setup builds for a simplex is the fixed
\* table of its geometry: 3 quadrilaterals over 7 vertices for the triangle,
\* 4 hexahedra over 15 vertices for the tetrahedron, 3 hexahedra over 14
\* vertices for the prism; every connectivity entry is a vertex index in
\* [0, vertex count), no sub-element repeats a vertex, every vertex belongs
\* to a sub-element, and the cached table has points of every sub-element.
C22_SubMeshTables ==
    SimplexSetupSucceeded =>
        LET gt == mesh.geom[0]
            sm == SubMesh(gt)
        IN  /\ <<Len(sm.e), Len(sm.v)>> =
                   (IF gt = "TRIANGLE" THEN <<3, 7>>
                    ELSE IF gt = "TETRAHEDRON" THEN <<4, 15>> ELSE <<3, 14>>)
            /\ sm.NEsplit = Len(sm.e) /\ sm.Nvert = Len(sm.v)
            /\ sm.NEsplit = NEsplitOf(gt)
            /\ \A i \in DOMAIN sm.e :
                   /\ Len(sm.e[i]) = Pow(2, dim)
                   /\ VerticesOf(sm, i) \subseteq 0 .. sm.Nvert - 1
                   /\ Cardinality(VerticesOf(sm, i)) = Len(sm.e[i])
            /\ UNION {VerticesOf(sm, i) : i \in DOMAIN sm.e} = 0 .. sm.Nvert - 1
            /\ \A j \in DOMAIN sm.v : Len(sm.v[j]) = dim
            /\ {tables[ir_simplex].ip[k][2] : k \in DOMAIN tables[ir_simplex].ip}
                   = 0 .. sm.NEsplit - 1

C22_Witness ==
    /\ SimplexSetupSucceeded
    /\ mesh.geom[0] = "TETRAHEDRON"
    /\ SubMesh("TETRAHEDRON").e[4] = <<10, 8, 3, 7, 14, 11, 9, 12>>
    /\ Size(tables[ir_simplex].ip) = 4 * Pow(mesh.order + 1, 3)

\* Determinants of the edge vectors from p: twice the signed area of the
\* triangle p q r, six times the signed volume of the tetrahedron p q r s.
Det2(p, q, r) ==
    (q[1] - p[1]) * (r[2] - p[2]) - (q[2] - p[2]) * (r[1] - p[1])

Det3(p, q, r, s) ==
    LET a == [n \in 1 .. 3 |-> q[n] - p[n]]
        b == [n \in 1 .. 3 |-> r[n] - p[n]]
        c == [n \in 1 .. 3 |-> s[n] - p[n]]
    IN  a[1] * (b[2] * c[3] - b[3] * c[2])
        - a[2] * (b[1] * c[3] - b[3] * c[1])
        + a[3] * (b[1] * c[2] - b[2] * c[1])

\* The corners of sub-element i (from 1) of sm, in the order of its row.
Corner(sm, i, n) == sm.v[sm.e[i][n + 1] + 1]

\* Twice the signed area of quadrilateral i: corners 0 1 2 3 in a cycle.
QuadArea2(sm, i) ==
    Det2(Corner(sm, i, 0), Corner(sm, i, 1), Corner(sm, i, 2))
    + Det2(Corner(sm, i, 0), Corner(sm, i, 2), Corner(sm, i, 3))

\* The faces of a hexahedron with corners 0 1 2 3 at the bottom and 4 5 6 7
\* above them, and the sides of a quadrilateral.
HexFaces == {<<3, 2, 1, 0>>, <<0, 1, 5, 4>>, <<1, 2, 6, 5>>,
             <<2, 3, 7, 6>>, <<3, 0, 4, 7>>, <<4, 5, 6, 7>>}

QuadSides == {<<0, 1>>, <<1, 2>>, <<2, 3>>, <<3, 0>>}

\* Six tetrahedra around the diagonal 0-6 that fill a hexahedron with plane
\* faces.
HexTets == {<<0, 1, 2, 6>>, <<0, 2, 3, 6>>, <<0, 3, 7, 6>>,
            <<0, 7, 4, 6>>, <<0, 4, 5, 6>>, <<0, 5, 1, 6>>}

TetVolume6(sm, i, t) ==
    Det3(Corner(sm, i, t[1]), Corner(sm, i, t[2]),
         Corner(sm, i, t[3]), Corner(sm, i, t[4]))

RECURSIVE SumOver(_, _)
SumOver(S, f) ==
    IF S = {} THEN 0
    ELSE LET x == CHOOSE y \in S : TRUE
         IN  f[x] + SumOver(S \ {x}, f)

\* Six times the signed volume of hexahedron i.
HexVolume6(sm, i) ==
    SumOver(HexTets, [t \in HexTets |-> TetVolume6(sm, i, t)])

\* The measure of sub-element i in units of scale^d / d!, d the dimension.
SubMeasure(sm, i) ==
    IF Len(sm.e[i]) = 4 THEN QuadArea2(sm, i) ELSE HexVolume6(sm, i)

\* The vertex sets of the faces (sides) of sub-element i.
FacesOf(sm, i) ==
    LET fs == IF Len(sm.e[i]) = 4 THEN QuadSides ELSE HexFaces
    IN  {{sm.e[i][f[n] + 1] : n \in DOMAIN f} : f \in fs}

\* The face lies in the boundary of the reference simplex: all its vertices
\* are in one of the planes that bound the simplex.
OnBoundary(gt, sm, face) ==
    LET d  == Len(sm.v[1])
        P  == {sm.v[j + 1] : j \in face}
        in(n, val) == \A p \in P : p[n] = val
    IN  \/ in(1, 0)
        \/ in(2, 0)
        \/ d = 3 /\ in(3, 0)
        \/ gt = "PRISM" /\ in(3, sm.scale)
        \/ gt = "PRISM" /\ \A p \in P : p[1] + p[2] = sm.scale
        \/ gt = "TRIANGLE" /\ \A p \in P : p[1] + p[2] = sm.scale
        \/ gt = "TETRAHEDRON" /\ \A p \in P : p[1] + p[2] + p[3] = sm.scale

\* The measure of the reference simplex in the units of SubMeasure: area
\* 1/2 for the triangle, volume 1/6 for the tetrahedron, 1/2 for the prism.
SimplexMeasure(gt, sm) ==
    IF gt = "TRIANGLE" THEN sm.scale * sm.scale
    ELSE IF gt = "TETRAHEDRON" THEN sm.scale * sm.scale * sm.scale
    ELSE 3 * sm.scale * sm.scale * sm.scale

\* C23: the sub-elements of the sub-mesh built for a simplex have measures
\* of one sign that add up to the measure of the reference simplex, the
\* three quadrilaterals of the triangle having area 1/6 each; the six
\* tetrahedra of each hexahedron have that sign too; distinct vertices are
\* distinct points; and every face of a sub-element is either in the
\* boundary of the simplex and belongs to that sub-element alone, or is the
\* face, with the same vertices, of exactly one other sub-element.
C23_SubMeshCoversSimplex ==
    SimplexSetupSucceeded =>
        LET gt == mesh.geom[0]
            sm == SubMesh(gt)
            E  == DOMAIN sm.e
            owners(face) == {i \in E : face \in FacesOf(sm, i)}
        IN  /\ \A i \in E : SubMeasure(sm, i) < 0
            /\ dim = 3 => \A i \in E : \A t \in HexTets : TetVolume6(sm, i, t) < 0
            /\ SumOver(E, [i \in E |-> -SubMeasure(sm, i)]) = SimplexMeasure(gt, sm)
            /\ gt = "TRIANGLE" =>
                   \A i \in E : -3 * QuadArea2(sm, i) = sm.scale * sm.scale
            /\ \A j, k \in DOMAIN sm.v : sm.v[j] = sm.v[k] => j = k
            /\ \A i \in E : \A face \in FacesOf(sm, i) :
                   Cardinality(owners(face)) =
                       (IF OnBoundary(gt, sm, face) THEN 1 ELSE 2)

C23_Witness ==
    /\ SimplexSetupSucceeded
    /\ mesh.geom[0] = "PRISM"
    /\ HexVolume6(SubMesh("PRISM"), 1) = -216
    /\ {4, 5, 11, 12} \in FacesOf(SubMesh("PRISM"), 2) \cap FacesOf(SubMesh("PRISM"), 3)

(***************************************************************************)
(* The lexicographic reordering.                                           *)
(***************************************************************************)
TensorSetupSucceeded == SetupSucceeded /\ mesh.geom[0] \in Tensors

\* The native dof behind slot k of element e on axis d of the point cloud.
NativeDofAt(e, k, d, n) == gsl_mesh[d * GetNE(mesh) * n + e * n + k][3]

\* C24: after a successful Setup on squares or cubes of order p every
\* element has (p+1)^dim points in the cloud on each axis, and on each axis
\* the native dofs behind the slots of an element are the dofs 0 ..
\* (p+1)^dim - 1 of the element, each in exactly one slot: the slot of a dof
\* is unique, and going from a slot to its dof and back to the slot of that
\* dof, or from a dof to its slot and on to the dof of that slot, is the
\* identity.
C24_DofMapIsPermutation ==
    TensorSetupSucceeded =>
        LET n     == Pow(mesh.order + 1, dim)
            Slots == 0 .. n - 1
        IN  \A e \in 0 .. GetNE(mesh) - 1 : \A d \in 0 .. dim - 1 :
              LET dof    == [k \in Slots |-> NativeDofAt(e, k, d, n)]
                  slotOf == [v \in Slots |-> {k \in Slots : dof[k] = v}]
              IN  /\ Cardinality({x \in DOMAIN gsl_mesh :
                                     gsl_mesh[x][2] = e /\ gsl_mesh[x][4] = d}) = n
                  /\ \A k \in Slots :
                         /\ gsl_mesh[d * GetNE(mesh) * n + e * n + k][2] = e
                         /\ dof[k] \in Slots
                         /\ slotOf[dof[k]] = {k}
                  /\ \A v \in Slots :
                         /\ Cardinality(slotOf[v]) = 1
                         /\ \A k \in slotOf[v] : dof[k] = v

C24_Witness ==
    /\ TensorSetupSucceeded
    /\ mesh.geom[0] = "CUBE" /\ mesh.order = MaxOrder /\ GetNE(mesh) = MaxNE
    /\ NativeDofAt(1, 1, 2, Pow(MaxOrder + 1, 3)) = 8

(***************************************************************************)
(* The cached integration-point table.                                     *)
(***************************************************************************)
\* The cached table.
Table == tables[ir_simplex].ip

\* Every element of the point cloud is sampled at the points of the cached
\* table, in the order of the table.
CloudUsesTable ==
    /\ Size(gsl_mesh) = dim * GetNE(mesh) * Size(Table)
    /\ \A j \in 0 .. GetNE(mesh) - 1 : \A i \in DOMAIN Table : \A d \in 0 .. dim - 1 :
           gsl_mesh[d * GetNE(mesh) * Size(Table) + j * Size(Table) + i][3] = Table[i]

\* Every element of the field is sampled at the points of the cached table,
\* in the order of the table, for every component.
SamplerUsesTable ==
    \A c \in DOMAIN calls :
        /\ Size(calls[c].a.nvals) = GetNE(mesh) * Size(Table)
        /\ \A j \in 0 .. GetNE(mesh) - 1 : \A i \in DOMAIN Table :
               calls[c].a.nvals[j * Size(Table) + i][4] = Table[i]

\* C25: on the simplex path a successful Setup leaves a table of NEsplit
\* times as many points as a sub-element has nodes, at which every element
\* of the point cloud was sampled in table order; a FindPoints or an
\* Interpolate step leaves the cached table, its point count and its
\* points as they were; and an Interpolate that completes on the simplex
\* mesh has sampled every element at the points of that table, in order.
C25_TableReusedUnchanged ==
    [][/\ SimplexSetupSucceeded' =>
              /\ ir_simplex' # 0
              /\ tables'[ir_simplex'].st = "live"
              /\ Size(tables'[ir_simplex'].ip)
                     = NEsplitOf(mesh'.geom[0]) * Pow(mesh'.order + 1, dim')
              /\ CloudUsesTable'
       /\ (lastOp'.op \in {"FindPoints", "Interpolate"} /\ ir_simplex # 0) =>
              /\ ir_simplex' = ir_simplex
              /\ tables'[ir_simplex] = tables[ir_simplex]
       /\ (InterpolateDone' /\ Ready /\ mesh.geom[0] \in Simplices) =>
              /\ SamplerUsesTable'
              /\ CloudUsesTable']_vars

C25_Witness ==
    /\ InterpolateDone /\ Ready
    /\ mesh.geom[0] = "TRIANGLE" /\ GetNE(mesh) = MaxNE
    /\ Len(calls) = 2
    /\ calls[2].a.nvals[Size(Table) + 5] = <<"G", 1, 1, Table[5]>>
    /\ gsl_mesh[Size(Table) + 5] = <<"F", 1, Table[5], 0>>

\* C26: after a successful Setup on simplices the table holds the nodes
\* <<"S", i, n>> of the sub-elements of the reference sub-mesh, and the
\* point cloud holds, for element j and table point k, the coordinates
\* <<"F", j, table[k], d>> of the nodal grid function of element j of the
\* mesh evaluated at table[k]: the map of the physical element, one value
\* per element, not the position of the node in the sub-mesh.
C26_PhysicalMapAtTablePoints ==
    SimplexSetupSucceeded =>
        LET n  == Size(Table)
            NE == GetNE(mesh)
        IN  /\ \A k \in DOMAIN Table :
                   /\ Table[k][1] = "S"
                   /\ Table[k][2] \in 0 .. NEsplitOf(mesh.geom[0]) - 1
                   /\ Table[k][3] \in 0 .. Pow(mesh.order + 1, dim) - 1
            /\ \A j \in 0 .. NE - 1 : \A k \in DOMAIN Table : \A d \in 0 .. dim - 1 :
                   gsl_mesh[d * NE * n + j * n + k] = <<"F", j, Table[k], d>>
            /\ \A x \in DOMAIN gsl_mesh : gsl_mesh[x][1] = "F"
            /\ NE > 1 => gsl_mesh[0] # gsl_mesh[n]

C26_Witness ==
    /\ SimplexSetupSucceeded
    /\ mesh.geom[0] = "TETRAHEDRON" /\ GetNE(mesh) = MaxNE /\ mesh.order = 1
    /\ gsl_mesh[2 * MaxNE * 32 + 32 + 9] = <<"F", 1, <<"S", 1, 1>>, 2>>

(***************************************************************************)
(* The counts given to the engine.                                         *)
(***************************************************************************)
\* C27: the element count of a successful Setup's findpts_setup call is the
\* number of registered points divided by (order+1)^dim without remainder:
\* the element count of the mesh on squares and cubes, NEsplit times it on
\* simplices, and element count x (order+1)^dim is the number of points
\* registered, the length of the point cloud divided by dim.
C27_ElementCountExact ==
    SetupSucceeded =>
        LET per == Pow(mesh.order + 1, dim)
            c   == calls[1]
        IN  /\ c.fn \in SetupFns
            /\ dim * c.a.npt = Size(gsl_mesh)
            /\ c.a.npt % per = 0
            /\ c.a.nel * per = c.a.npt
            /\ c.a.nel = (IF mesh.geom[0] \in Tensors THEN GetNE(mesh)
                          ELSE IF mesh.geom[0] = "TETRAHEDRON" THEN 4 * GetNE(mesh)
                          ELSE 3 * GetNE(mesh))

C27_Witness ==
    /\ SetupSucceeded
    /\ mesh.geom[0] = "PRISM" /\ GetNE(mesh) = MaxNE /\ mesh.order = MaxOrder
    /\ calls[1].a.nel = 3 * MaxNE
    /\ calls[1].a.npt = 3 * MaxNE * Pow(MaxOrder + 1, 3)

\* C28: in every evaluation call of an Interpolate that completes in Ready,
\* whatever the component and the geometry, the nodal values have as many
\* entries as points were registered with the engine at Setup: the length
\* of the point cloud divided by dim.
C28_NodeValuesMatchRegistered ==
    (InterpolateDone /\ Ready) =>
        /\ Len(calls) >= 1
        /\ \A i \in DOMAIN calls :
               /\ calls[i].fn \in EvalFns
               /\ Size(gsl_mesh) % dim = 0
               /\ Size(calls[i].a.nvals) = Size(gsl_mesh) \div dim

C28_Witness ==
    /\ InterpolateDone /\ Ready /\ Len(calls) = 2
    /\ mesh.geom[0] = "TRIANGLE"
    /\ Size(calls[2].a.nvals) = MaxNE * 12
    /\ Size(gsl_mesh) = 2 * MaxNE * 12

(***************************************************************************)
(* Release of the engine structures and of the tables.                     *)
(***************************************************************************)
\* C29: a FreeData on an instance on which Setup was never called, dim
\* still -1 and both handles null, calls neither findpts_free_2 nor
\* findpts_free_3; and a free routine is only ever given a handle that a
\* findpts_setup of this instance returned.
C29_FreeDataBeforeSetup ==
    /\ (lastOp.op = "FreeData" /\ dim = -1 /\ fdata2D = 0 /\ fdata3D = 0) =>
           CallsOf(FreeFns) = {}
    /\ \A c \in CallsOf(FreeFns) :
           c.h \in HandleIds /\ handles[c.h] # "unused"

\* The tables that were allocated and not deleted.
LiveTables == {t \in HandleIds : tables[t].st = "live"}

\* C30: at most one integration-point table is live at any time, the one
\* ir_simplex points to, and once the instance is destroyed no table is
\* live.
C30_OneLiveTable ==
    /\ Cardinality(LiveTables) <= 1
    /\ LiveTables \subseteq {ir_simplex}
    /\ proc = "destroyed" => LiveTables = {}

=============================================================================
